---------------------------- MODULE Spec2Model ----------------------------
(***************************************************************************)
(* A model of investment_jax.py: the Bellman backup B, the Bellman         *)
(* operator T, the greedy extractor, the two policy operators (dense and   *)
(* matrix-free), the two policy evaluators (direct solve and matrix-free   *)
(* Krylov solve) and the three solvers built from them (VFI, HPI, OPI).    *)
(*                                                                         *)
(* Arithmetic.  The program computes in 64-bit floats; the model computes  *)
(* in exact rationals.  An array of reals is a record [num, den]: integer  *)
(* numerators over one common positive denominator, kept in lowest terms   *)
(* (Norm), so that equal arrays are equal records.  Arrays are indexed     *)
(* from 0 as in the program.                                               *)
(***************************************************************************)
EXTENDS Integers, Sequences, FiniteSets, TLC

(***************************************************************************)
(* Bounds of the model.                                                    *)
(***************************************************************************)
\* value functions given as inputs have entries 0 or MaxVal
MaxVal == 1
\* m of optimistic_policy_iteration ranges over 1..MaxM
MaxM == 2
\* the loops of the solvers are followed for at most MaxIter iterations
MaxIter == 6
\* iterates a stopped Krylov solve may hold: partial sums of depth < KrylovDepth
KrylovDepth == 2

(***************************************************************************)
(* Integer helpers.                                                        *)
(***************************************************************************)
Abs(x) == IF x < 0 THEN -x ELSE x

Max(a, b) == IF a >= b THEN a ELSE b

RECURSIVE GCD(_, _)
GCD(a, b) == IF b = 0 THEN Abs(a) ELSE GCD(Abs(b), Abs(a) % Abs(b))

LCM(a, b) == (a \div GCD(a, b)) * b

\* the common divisor of g and the values of f on the finite set D
\* f itself; comparing a function makes TLC tabulate it once, and not at every use
Tab(f) == IF f = f THEN f ELSE f

\* b, with a computed first
After(a, b) == IF a = a THEN b ELSE b

RECURSIVE GcdOver(_, _, _)
GcdOver(f, D, g) ==
    IF D = {} THEN g
    ELSE LET first == CHOOSE elt \in D : TRUE
         IN  GcdOver(f, D \ {first}, GCD(g, f[first]))

RECURSIVE MaxOver(_, _)
MaxOver(f, D) ==
    LET first == CHOOSE elt \in D : TRUE
    IN  IF D = {first} THEN f[first] ELSE Max(f[first], MaxOver(f, D \ {first}))

RECURSIVE SumTo(_, _)
\* the sum of f[0] + ... + f[n-1]
SumTo(f, n) == IF n = 0 THEN 0 ELSE SumTo(f, n - 1) + f[n - 1]

(***************************************************************************)
(* Arrays of rationals.                                                    *)
(***************************************************************************)
\* lowest terms: divide numerators and denominator by their common divisor
Norm(a) ==
    LET g == GcdOver(a.num, DOMAIN a.num, a.den)
    IN  [num |-> Tab([d \in DOMAIN a.num |-> a.num[d] \div g]), den |-> a.den \div g]

\* jnp.max(np.abs(a - b)) as a rational [num, den] in lowest terms
MaxAbsDiff(a, b) ==
    LET L == LCM(a.den, b.den)
        diff == Tab([d \in DOMAIN a.num |->
                    Abs(a.num[d] * (L \div a.den) - b.num[d] * (L \div b.den))])
        e == MaxOver(diff, DOMAIN diff)
        g == GCD(e, L)
    IN  [num |-> e \div g, den |-> L \div g]

\* p > q for rationals p, q with positive denominators
RatGT(p, q) == p.num * q.den > q.num * p.den

(***************************************************************************)
(* The model tuple (constants, sizes, arrays) of create_investment_model_jax. *)
(* beta = beta_num / beta_den, Q[j, jp] = Qn[j][jp] / q_den.               *)
(***************************************************************************)
Kernels ==
    { [Qn |-> [j \in 0..1 |-> [jp \in 0..1 |-> IF j = jp THEN 1 ELSE 0]], q_den |-> 1],
      [Qn |-> [j \in 0..1 |-> [jp \in 0..1 |-> 1]], q_den |-> 2],
      [Qn |-> [j \in 0..1 |-> [jp \in 0..1 |-> IF j = 0 THEN 1 ELSE IF jp = 1 THEN 2 ELSE 0]],
       q_den |-> 2] }

Models ==
    { [beta_num |-> 1, beta_den |-> 2, a_0 |-> a0, a_1 |-> 1, gamma |-> g, c |-> 1,
       y_size |-> ys, z_size |-> 2,
       y_grid |-> [i \in 0..(ys - 1) |-> i], z_grid |-> [j \in 0..1 |-> j],
       Qn |-> k.Qn, q_den |-> k.q_den] :
      a0 \in {2, 3}, g \in {0, 1}, ys \in {2, 3}, k \in Kernels }

YIdx(mdl) == 0..(mdl.y_size - 1)
ZIdx(mdl) == 0..(mdl.z_size - 1)
\* the index set of a (y_size, z_size) array
Idx(mdl) == YIdx(mdl) \X ZIdx(mdl)

\* jnp.zeros(sizes)
Zeros(mdl) == [num |-> [d \in Idx(mdl) |-> 0], den |-> 1]

\* every policy: an integer array with entries in [0, y_size)
Policies(mdl) == [Idx(mdl) -> YIdx(mdl)]

\* the value functions given as inputs: entries 0 or MaxVal, rows repeating with period 2
Values(mdl) ==
    { [num |-> [d \in Idx(mdl) |-> MaxVal * f[<<d[1] % 2, d[2]>>]], den |-> 1] :
      f \in [(0..1) \X ZIdx(mdl) -> 0..1] }

(***************************************************************************)
(* R[i, j, ip] = (a_0 - a_1 y + z - c) y - gamma (yp - y)^2                *)
(***************************************************************************)
Reward(mdl, i, j, k) ==
    LET y  == mdl.y_grid[i]
        z  == mdl.z_grid[j]
        yp == mdl.y_grid[k]
    IN  (mdl.a_0 - mdl.a_1 * y + z - mdl.c) * y - mdl.gamma * (yp - y) * (yp - y)

\* the numerator of sum_jp row[jp] * Q[j, jp] over q_den, for a row of numerators
ExpectNum(mdl, row, j) ==
    SumTo([jp \in ZIdx(mdl) |-> row[jp] * mdl.Qn[j][jp]], mdl.z_size)


\* R + C, the continuation not discounted
B_undiscounted(mdl, v) ==
    LET den == v.den * mdl.q_den
        C(j, ip) == ExpectNum(mdl, [jp \in ZIdx(mdl) |-> v.num[<<ip, jp>>]], j)
    IN  [num |-> Tab([t \in YIdx(mdl) \X ZIdx(mdl) \X YIdx(mdl) |->
                    Reward(mdl, t[1], t[2], t[3]) * den + C(t[2], t[3])]),
         den |-> den]

(***************************************************************************)
(* B(y, z, y') = r(y, z, y') + beta sum_z' v(y', z') Q(z, z'), a tensor    *)
(* indexed by <<i, j, ip>> over the denominator v.den * q_den * beta_den.  *)
(***************************************************************************)
B(mdl, v) ==
    LET den == v.den * mdl.q_den * mdl.beta_den
        \* C = jnp.sum(v * Q, axis=3): C[i, j, ip] = sum_jp v[ip, jp] Q[j, jp]
        C(j, ip) == ExpectNum(mdl, [jp \in ZIdx(mdl) |-> v.num[<<ip, jp>>]], j)
    IN  [num |-> Tab([t \in YIdx(mdl) \X ZIdx(mdl) \X YIdx(mdl) |->
                    Reward(mdl, t[1], t[2], t[3]) * den + mdl.beta_num * C(t[2], t[3])]),
         den |-> den]

\* jnp.max(row) of row[0..n-1], scanning from index k with the running maximum best
RECURSIVE MaxScan(_, _, _, _)
MaxScan(row, k, n, best) ==
    IF k = n THEN best
    ELSE MaxScan(row, k + 1, n, IF row[k] > best THEN row[k] ELSE best)

\* jnp.argmax(row): the scan keeps the first index at which the maximum occurs
RECURSIVE ArgMaxScanLast(_, _, _, _)
ArgMaxScanLast(row, k, n, best) ==
    IF k = n THEN best
    ELSE ArgMaxScanLast(row, k + 1, n, IF row[k] >= row[best] THEN k ELSE best)

RECURSIVE ArgMaxScan(_, _, _, _)
ArgMaxScan(row, k, n, best) ==
    IF k = n THEN best
    ELSE ArgMaxScan(row, k + 1, n, IF row[k] > row[best] THEN k ELSE best)

\* The Bellman operator: jnp.max(B, axis=2)
T(mdl, v) ==
    LET b == B(mdl, v)
        row(d) == [k \in YIdx(mdl) |-> b.num[<<d[1], d[2], k>>]]
    IN  Norm([num |-> [d \in Idx(mdl) |-> MaxScan(row(d), 1, mdl.y_size, row(d)[0])],
              den |-> b.den])

\* an argmax that keeps the last index at which the maximum occurs
get_greedy_last(mdl, v) ==
    LET b == B(mdl, v)
        row(d) == [k \in YIdx(mdl) |-> b.num[<<d[1], d[2], k>>]]
    IN  Tab([d \in Idx(mdl) |-> ArgMaxScanLast(row(d), 1, mdl.y_size, 0)])

\* A v-greedy policy: jnp.argmax(B, axis=2)
get_greedy(mdl, v) ==
    LET b == B(mdl, v)
        row(d) == [k \in YIdx(mdl) |-> b.num[<<d[1], d[2], k>>]]
    IN  Tab([d \in Idx(mdl) |-> ArgMaxScan(row(d), 1, mdl.y_size, 0)])

\* r_sigma[i, j] = (a_0 - a_1 y + z - c) y - gamma (y_grid[sigma[i, j]] - y)^2
r_sigma(mdl, sigma) == Tab([d \in Idx(mdl) |-> Reward(mdl, d[1], d[2], sigma[d])])

\* the reshape to (n, n) with the column split by y_size in place of z_size
P_sigma_wrong_stride(mdl, sigma) ==
    LET zs == mdl.z_size
        ys == mdl.y_size
        n  == ys * zs
        A4(i, j, ip) == IF sigma[<<i, j>>] = ip THEN 1 ELSE 0
    IN  Tab([row \in 0..(n - 1) |-> [col \in 0..(n - 1) |->
            A4(row \div zs, row % zs, col % ys) * mdl.Qn[row % zs][(col \div ys) % zs]]])

\* P_sigma = A * Q reshaped to (n, n): row i * z_size + j, column ip * z_size + jp;
\* the entry is the numerator over q_den
P_sigma(mdl, sigma) ==
    LET zs == mdl.z_size
        n  == mdl.y_size * zs
        A4(i, j, ip) == IF sigma[<<i, j>>] = ip THEN 1 ELSE 0
    IN  Tab([row \in 0..(n - 1) |-> [col \in 0..(n - 1) |->
            A4(row \div zs, row % zs, col \div zs) * mdl.Qn[row % zs][col % zs]]])

\* The sigma-policy operator, dense: r_sigma + beta * P_sigma @ v on the flattened state
T_sigma(mdl, v, sigma) ==
    LET zs  == mdl.z_size
        n   == mdl.y_size * zs
        P   == P_sigma(mdl, sigma)
        r   == r_sigma(mdl, sigma)
        rf  == [row \in 0..(n - 1) |-> r[<<row \div zs, row % zs>>]]
        vf  == [col \in 0..(n - 1) |-> v.num[<<col \div zs, col % zs>>]]
        den == v.den * mdl.q_den * mdl.beta_den
        new_v == [row \in 0..(n - 1) |->
                    rf[row] * den
                    + mdl.beta_num * SumTo([col \in 0..(n - 1) |-> P[row][col] * vf[col]], n)]
    IN  Norm([num |-> [d \in Idx(mdl) |-> new_v[d[1] * zs + d[2]]], den |-> den])

\* the gather V[i, j, jp] = v[sigma[i, j], jp] with the column index taken from j
T_sigma_2_wrong_gather(mdl, v, sigma) ==
    LET den == v.den * mdl.q_den * mdl.beta_den
        r   == r_sigma(mdl, sigma)
        V(d) == [jp \in ZIdx(mdl) |-> v.num[<<sigma[d], d[2]>>]]
    IN  Norm([num |-> [d \in Idx(mdl) |->
                        r[d] * den + mdl.beta_num * ExpectNum(mdl, V(d), d[2])],
              den |-> den])

\* The sigma-policy operator, matrix-free: r_sigma + beta sum_jp v[sigma[i, j], jp] Q[j, jp]
T_sigma_2(mdl, v, sigma) ==
    LET den == v.den * mdl.q_den * mdl.beta_den
        r   == r_sigma(mdl, sigma)
        V(d) == [jp \in ZIdx(mdl) |-> v.num[<<sigma[d], jp>>]]
    IN  Norm([num |-> [d \in Idx(mdl) |->
                        r[d] * den + mdl.beta_num * ExpectNum(mdl, V(d), d[2])],
              den |-> den])

\* The linear map of the Krylov solve: v - beta sum_jp v[sigma[i, j], jp] Q[j, jp]
A(mdl, v, sigma) ==
    LET s == mdl.q_den * mdl.beta_den
        V(d) == [jp \in ZIdx(mdl) |-> v.num[<<sigma[d], jp>>]]
    IN  Norm([num |-> [d \in Idx(mdl) |->
                        v.num[d] * s - mdl.beta_num * ExpectNum(mdl, V(d), d[2])],
              den |-> v.den * s])

(***************************************************************************)
(* The exact solution of an n x n integer system, as jnp.linalg.solve      *)
(* returns it up to rounding.  rows[i] holds row i of the matrix in        *)
(* columns 0..n-1 and the right-hand side in column n.  Column k is        *)
(* cleared from every other row; a row is kept in lowest terms.  The       *)
(* systems solved here are strictly diagonally dominant (beta < 1 and a    *)
(* row-stochastic P_sigma), so no pivot is zero.                           *)
(***************************************************************************)
RowReduce(row, n) ==
    LET g == GcdOver(row, 0..n, 0)
    IN  IF g = 0 THEN row ELSE Tab([c \in 0..n |-> row[c] \div g])

RECURSIVE Eliminate(_, _, _)
Eliminate(rows, k, n) ==
    IF k = n THEN rows
    ELSE LET piv == rows[k]
             step == Tab([i \in 0..(n - 1) |->
                        IF i = k THEN piv
                        ELSE RowReduce(Tab([c \in 0..n |->
                                 rows[i][c] * piv[k] - piv[c] * rows[i][k]]), n)])
         IN  After(step, Eliminate(step, k + 1, n))

RECURSIVE LcmTo(_, _)
\* the common multiple of f[0], ..., f[n-1]
LcmTo(f, n) == IF n = 0 THEN 1 ELSE LCM(LcmTo(f, n - 1), f[n - 1])

\* the solution x of rows, as numerators x[0..n-1] over a common denominator
LinSolve(rows, n) ==
    LET e == Eliminate(rows, 0, n)
        \* x[i] = e[i][n] / e[i][i], with the sign moved to the numerator
        d(i) == Abs(e[i][i])
        s(i) == IF e[i][i] < 0 THEN -1 ELSE 1
        L == LcmTo([i \in 0..(n - 1) |-> d(i)], n)
    IN  After(e, [num |-> Tab([i \in 0..(n - 1) |-> s(i) * e[i][n] * (L \div d(i))]),
                  den |-> L])

\* the value of sigma cut after one period: r_sigma
get_value_one_period(mdl, sigma) == [num |-> r_sigma(mdl, sigma), den |-> 1]

\* The value of sigma by the direct solve: (I - beta P_sigma) v_sigma = r_sigma
get_value(mdl, sigma) ==
    LET zs == mdl.z_size
        n  == mdl.y_size * zs
        P  == P_sigma(mdl, sigma)
        r  == r_sigma(mdl, sigma)
        s  == mdl.q_den * mdl.beta_den
        \* s * (np.identity(n) - beta * P_sigma) and s * r_sigma
        rows == Tab([row \in 0..(n - 1) |-> [col \in 0..n |->
                    IF col = n THEN s * r[<<row \div zs, row % zs>>]
                    ELSE (IF row = col THEN s ELSE 0) - mdl.beta_num * P[row][col]]])
        x  == LinSolve(rows, n)
    IN  After(x, Norm([num |-> [d \in Idx(mdl) |-> x.num[d[1] * zs + d[2]]], den |-> x.den]))

\* a - b for two arrays of rationals
ArrSub(a, b) ==
    LET L == LCM(a.den, b.den)
    IN  Norm([num |-> [d \in DOMAIN a.num |->
                        a.num[d] * (L \div a.den) - b.num[d] * (L \div b.den)],
              den |-> L])

\* a + b for two arrays of rationals
ArrAdd(a, b) ==
    LET L == LCM(a.den, b.den)
    IN  Norm([num |-> [d \in DOMAIN a.num |->
                        a.num[d] * (L \div a.den) + b.num[d] * (L \div b.den)],
              den |-> L])

(***************************************************************************)
(* jax.scipy.sparse.linalg.bicgstab(A_map, r_sigma), a library routine     *)
(* that reaches A_map only by applying it.  It starts from x0 = 0 and      *)
(* iterates while the residual exceeds the tolerance, the iteration cap    *)
(* is not reached and the recurrence has not broken down; it then returns  *)
(* (x, info) with info always None, whatever ended the loop.  The model    *)
(* keeps the loop's outcomes and not its recurrence: the solve either      *)
(* ends on the solution of A_map(x) = b, or stops early holding an         *)
(* iterate of the Krylov space of A_map and b, here x0 = 0 and the sums    *)
(* x <- x + (b - A_map(x)) of depth below KrylovDepth.  converged records  *)
(* the loop's residual test on the returned x; the residuals of the        *)
(* arrays of this model are zero or far above the tolerance of 1e-5, so    *)
(* the test is residual = 0.  The caller never sees converged.             *)
(***************************************************************************)
\* the solution of A_map(x) = b, from the matrix A_map has on the unit arrays
KrylovSolution(mdl, sigma, b) ==
    LET zs == mdl.z_size
        n  == mdl.y_size * zs
        unit(col) == [num |-> [d \in Idx(mdl) |-> IF d[1] * zs + d[2] = col THEN 1 ELSE 0],
                      den |-> 1]
        \* column col of the matrix, over the denominator s
        s  == mdl.q_den * mdl.beta_den
        cols == Tab([col \in 0..(n - 1) |->
                    LET a == A(mdl, unit(col), sigma)
                    IN  [d \in Idx(mdl) |-> a.num[d] * (s \div a.den)]])
        rows == Tab([row \in 0..(n - 1) |-> [col \in 0..n |->
                    IF col = n THEN s * b.num[<<row \div zs, row % zs>>]
                    ELSE cols[col][<<row \div zs, row % zs>>]]])
        x  == LinSolve(rows, n)
    IN  After(x, Norm([num |-> [d \in Idx(mdl) |-> x.num[d[1] * zs + d[2]]],
                       den |-> x.den * b.den]))

RECURSIVE KrylovIterate(_, _, _, _)
KrylovIterate(mdl, sigma, b, k) ==
    IF k = 0 THEN Zeros(mdl)
    ELSE LET x == KrylovIterate(mdl, sigma, b, k - 1)
         IN  After(x, ArrAdd(x, ArrSub(b, A(mdl, x, sigma))))

bicgstab(mdl, sigma, b) ==
    LET outcome(x) == [x |-> x, converged |-> (A(mdl, x, sigma) = b)]
    IN  { outcome(KrylovSolution(mdl, sigma, b)) }
        \cup { outcome(KrylovIterate(mdl, sigma, b, k)) : k \in 0..(KrylovDepth - 1) }

\* The value of sigma by the matrix-free solve: bicgstab(A_map, r_sigma)[0].
\* The set of the arrays the call may return.
get_value_2(mdl, sigma) ==
    { o.x : o \in bicgstab(mdl, sigma, [num |-> r_sigma(mdl, sigma), den |-> 1]) }

(***************************************************************************)
(* State.  mdl is the model tuple every call receives.  The operators are  *)
(* pure: a call is recorded by its name, its arguments and what it         *)
(* returned.  The solvers' locals carry the names they have in the code.   *)
(***************************************************************************)
VARIABLES
    mdl,        \* (constants, sizes, arrays)
    call,       \* the operator called last, "none" before any call
    arg,        \* the arguments of the calls recorded in ret
    ret,        \* what the calls returned
    tol,        \* the tolerance given to value_iteration and optimistic_policy_iteration
    m,          \* the m given to optimistic_policy_iteration
    pc,         \* where quick_timing_test and the solver it runs stand
    sigma,      \* the running solver's policy
    v,          \* the running solver's value function (x in successive_approx)
    last_v,     \* optimistic_policy_iteration's last_v
    v_sigma,    \* policy_iteration's v_sigma
    error,      \* the running solver's error, a rational [num, den]
    i,          \* the iterations the running solver's loop has made
    cnt,        \* the passes made of optimistic_policy_iteration's for loop
    out,        \* the policy each solver returned
    sigma_eval, \* history: the policy policy_iteration evaluated last
    solved,     \* history: what the Krylov solve returned for each policy evaluated
    trace       \* history: the value functions value_iteration and OPI went through

opvars == <<mdl, call, arg, ret>>
solvervars == <<tol, m, pc, sigma, v, last_v, v_sigma, error, i, cnt, out, sigma_eval,
                solved, trace>>
vars == <<mdl, call, arg, ret, tol, m, pc, sigma, v, last_v, v_sigma, error, i, cnt, out,
          sigma_eval, solved, trace>>

\* the tolerances given to the solvers
Tols == { [num |-> 1, den |-> 2], [num |-> 1, den |-> 1], [num |-> 2, den |-> 1] }

NoOut == [hpi |-> <<>>, vfi |-> <<>>, opi |-> <<>>]
NoTrace == [vfi |-> <<>>, opi |-> <<>>]

\* no solver is running
SolversIdle ==
    /\ tol = [num |-> 1, den |-> 1]
    /\ m = 1
    /\ pc = "idle"
    /\ sigma = <<>>
    /\ v = <<>>
    /\ last_v = <<>>
    /\ v_sigma = <<>>
    /\ error = [num |-> 0, den |-> 1]
    /\ i = 0
    /\ cnt = 0
    /\ out = NoOut
    /\ sigma_eval = <<>>
    /\ solved = <<>>
    /\ trace = NoTrace

NoArg == [v |-> <<>>, w |-> <<>>, sigma |-> <<>>]

InitOps ==
    /\ mdl \in Models
    /\ call = "none"
    /\ arg = NoArg
    /\ ret = <<>>
    /\ SolversIdle

\* get_greedy(v, constants, sizes, arrays)
Call_get_greedy ==
    /\ call = "none"
    /\ \E v0 \in Values(mdl) :
         /\ arg' = [NoArg EXCEPT !.v = v0]
         /\ ret' = <<get_greedy(mdl, v0)>>
    /\ call' = "get_greedy"
    /\ UNCHANGED <<mdl, solvervars>>

\* T(v, constants, sizes, arrays), on a first value function
Call_T ==
    /\ call = "none"
    /\ \E v0 \in Values(mdl) :
         /\ arg' = [NoArg EXCEPT !.v = v0]
         /\ ret' = <<T(mdl, v0)>>
    /\ call' = "T"
    /\ UNCHANGED <<mdl, solvervars>>

\* T(w, constants, sizes, arrays), on a second value function
Call_T_again ==
    /\ call = "T"
    /\ \E w0 \in Values(mdl) :
         /\ arg' = [arg EXCEPT !.w = w0]
         /\ ret' = Append(ret, T(mdl, w0))
    /\ call' = "T_again"
    /\ UNCHANGED <<mdl, solvervars>>

\* T_sigma(v, sigma, constants, sizes, arrays), the dense operator
Call_T_sigma ==
    /\ call = "none"
    /\ \E v0 \in Values(mdl), s0 \in Policies(mdl) :
         /\ arg' = [NoArg EXCEPT !.v = v0, !.sigma = s0]
         /\ ret' = <<T_sigma(mdl, v0, s0)>>
    /\ call' = "T_sigma"
    /\ UNCHANGED <<mdl, solvervars>>

\* T_sigma_2(v, sigma, constants, sizes, arrays) on the arguments T_sigma was given
Call_T_sigma_2 ==
    /\ call = "T_sigma"
    /\ ret' = Append(ret, T_sigma_2(mdl, arg.v, arg.sigma))
    /\ call' = "T_sigma_2"
    /\ UNCHANGED <<mdl, arg, solvervars>>

\* get_value(sigma, constants, sizes, arrays)
Call_get_value ==
    /\ call = "none"
    /\ \E s0 \in Policies(mdl) :
         /\ arg' = [NoArg EXCEPT !.sigma = s0]
         /\ ret' = <<get_value(mdl, s0)>>
    /\ call' = "get_value"
    /\ UNCHANGED <<mdl, solvervars>>

\* get_value_2(sigma, constants, sizes, arrays)
Call_get_value_2 ==
    /\ call = "none"
    /\ \E s0 \in Policies(mdl) :
         /\ arg' = [NoArg EXCEPT !.sigma = s0]
         /\ \E x \in get_value_2(mdl, s0) : ret' = <<x>>
    /\ call' = "get_value_2"
    /\ UNCHANGED <<mdl, solvervars>>

NextOps ==
    \/ Call_get_greedy
    \/ Call_T
    \/ Call_T_again
    \/ Call_T_sigma
    \/ Call_T_sigma_2
    \/ Call_get_value
    \/ Call_get_value_2

SpecOps == InitOps /\ [][NextOps]_vars

(***************************************************************************)
(* The solvers, run as quick_timing_test runs them: policy_iteration, then *)
(* value_iteration, then optimistic_policy_iteration, on one model.        *)
(***************************************************************************)
Init ==
    /\ mdl \in Models
    /\ call = "none"
    /\ arg = NoArg
    /\ ret = <<>>
    /\ tol \in Tols
    /\ m \in 1..MaxM
    /\ pc = "start"
    /\ sigma = <<>>
    /\ v = <<>>
    /\ last_v = <<>>
    /\ v_sigma = <<>>
    /\ error = [num |-> 0, den |-> 1]
    /\ i = 0
    /\ cnt = 0
    /\ out = NoOut
    /\ sigma_eval = <<>>
    /\ solved = <<>>
    /\ trace = NoTrace

\* while error > 1
HPI_continue_above_one(e) == RatGT(e, [num |-> 1, den |-> 1])

\* while error > 0
HPI_continue(e) == RatGT(e, [num |-> 0, den |-> 1])

\* policy_iteration up to its loop: sigma = zeros, i, error = 0, 1.0
policy_iteration_start ==
    /\ pc = "start"
    /\ sigma' = [d \in Idx(mdl) |-> 0]
    /\ i' = 0
    /\ error' = [num |-> 1, den |-> 1]
    /\ pc' = "hpi"
    /\ UNCHANGED <<mdl, call, arg, ret, tol, m, v, last_v, v_sigma, cnt, out, sigma_eval,
                   solved, trace>>

\* One pass of policy_iteration's loop.  The Krylov solve is deterministic: a policy
\* evaluated again gets the array it got before.
policy_iteration_step ==
    /\ pc = "hpi"
    /\ HPI_continue(error)
    /\ i < MaxIter
    /\ \E o \in bicgstab(mdl, sigma, [num |-> r_sigma(mdl, sigma), den |-> 1]) :
         /\ sigma \in DOMAIN solved => o = solved[sigma]
         /\ solved' = [s \in DOMAIN solved \cup {sigma} |->
                          IF s = sigma THEN o ELSE solved[s]]
         /\ v_sigma' = o.x
         /\ LET sigma_new == get_greedy(mdl, o.x)
            IN  /\ error' = [num |-> MaxOver(Tab([d \in Idx(mdl) |-> Abs(sigma_new[d] - sigma[d])]),
                                             Idx(mdl)),
                             den |-> 1]
                /\ sigma' = sigma_new
    /\ sigma_eval' = sigma
    /\ i' = i + 1
    /\ UNCHANGED <<mdl, call, arg, ret, tol, m, pc, v, last_v, cnt, out, trace>>

\* policy_iteration leaves its loop and returns sigma
policy_iteration_return ==
    /\ pc = "hpi"
    /\ ~HPI_continue(error)
    /\ out' = [out EXCEPT !.hpi = sigma]
    /\ pc' = "hpi_done"
    /\ UNCHANGED <<mdl, call, arg, ret, tol, m, sigma, v, last_v, v_sigma, error, i, cnt,
                   sigma_eval, solved, trace>>

\* value_iteration up to successive_approx's loop: x = vz = zeros
value_iteration_start ==
    /\ pc = "hpi_done"
    /\ v' = Zeros(mdl)
    /\ i' = 0
    /\ pc' = "vfi"
    /\ solved' = <<>>
    /\ UNCHANGED <<mdl, call, arg, ret, tol, m, sigma, last_v, v_sigma, error, cnt, out,
                   sigma_eval, trace>>

\* successive_approx is done once successive outputs differ by less than tolerance
successive_approx_done(e, tolerance) == RatGT(tolerance, e)

\* One pass of successive_approx: x <- T(x), until successive outputs differ by less
\* than the tolerance
successive_approx_step ==
    /\ pc = "vfi"
    /\ i = 0 \/ ~successive_approx_done(error, tol)
    /\ i < MaxIter
    /\ LET x_new == T(mdl, v)
       IN  /\ error' = MaxAbsDiff(x_new, v)
           /\ v' = x_new
           /\ trace' = [trace EXCEPT !.vfi = Append(@, x_new)]
    /\ i' = i + 1
    /\ UNCHANGED <<mdl, call, arg, ret, tol, m, pc, sigma, last_v, v_sigma, cnt, out,
                   sigma_eval, solved>>

\* successive_approx returns v_star and value_iteration returns get_greedy(v_star)
value_iteration_return ==
    /\ pc = "vfi"
    /\ i > 0
    /\ successive_approx_done(error, tol)
    /\ out' = [out EXCEPT !.vfi = get_greedy(mdl, v)]
    /\ pc' = "vfi_done"
    /\ UNCHANGED <<mdl, call, arg, ret, tol, m, sigma, v, last_v, v_sigma, error, i, cnt,
                   sigma_eval, solved, trace>>

\* optimistic_policy_iteration up to its loop: v = zeros, error = tol + 1
optimistic_policy_iteration_start ==
    /\ pc = "vfi_done"
    /\ v' = Zeros(mdl)
    /\ error' = [num |-> tol.num + tol.den, den |-> tol.den]
    /\ i' = 0
    /\ cnt' = 0
    /\ pc' = "opi"
    /\ UNCHANGED <<mdl, call, arg, ret, tol, m, sigma, last_v, v_sigma, out, sigma_eval,
                   solved, trace>>

\* while error >= tol
OPI_continue_at_tol(e, t) == ~RatGT(t, e)

\* while error > tol
OPI_continue(e, t) == RatGT(e, t)

\* for _ in range(m + 1)
OPI_for_one_more(k, n) == k < n + 1

\* for _ in range(m)
OPI_for(k, n) == k < n

\* the loop is entered: last_v = v, sigma = get_greedy(v)
optimistic_policy_iteration_greedy ==
    /\ pc = "opi"
    /\ OPI_continue(error, tol)
    /\ i < MaxIter
    /\ last_v' = v
    /\ sigma' = get_greedy(mdl, v)
    /\ cnt' = 0
    /\ pc' = "opi_for"
    /\ UNCHANGED <<mdl, call, arg, ret, tol, m, v, v_sigma, error, i, out, sigma_eval,
                   solved, trace>>

\* one pass of the for loop: v = T_sigma_2(v, sigma)
optimistic_policy_iteration_apply ==
    /\ pc = "opi_for"
    /\ OPI_for(cnt, m)
    /\ v' = T_sigma_2(mdl, v, sigma)
    /\ cnt' = cnt + 1
    /\ UNCHANGED <<mdl, call, arg, ret, tol, m, pc, sigma, last_v, v_sigma, error, i, out,
                   sigma_eval, solved, trace>>

\* the for loop is over: error = max |v - last_v|
optimistic_policy_iteration_error ==
    /\ pc = "opi_for"
    /\ ~OPI_for(cnt, m)
    /\ error' = MaxAbsDiff(v, last_v)
    /\ i' = i + 1
    /\ trace' = [trace EXCEPT !.opi = Append(@, v)]
    /\ pc' = "opi"
    /\ UNCHANGED <<mdl, call, arg, ret, tol, m, sigma, v, last_v, v_sigma, cnt, out,
                   sigma_eval, solved>>

\* optimistic_policy_iteration leaves its loop and returns get_greedy(v)
optimistic_policy_iteration_return ==
    /\ pc = "opi"
    /\ ~OPI_continue(error, tol)
    /\ out' = [out EXCEPT !.opi = get_greedy(mdl, v)]
    /\ pc' = "opi_done"
    /\ UNCHANGED <<mdl, call, arg, ret, tol, m, sigma, v, last_v, v_sigma, error, i, cnt,
                   sigma_eval, solved, trace>>

Next ==
    \/ policy_iteration_start
    \/ policy_iteration_step
    \/ policy_iteration_return
    \/ value_iteration_start
    \/ successive_approx_step
    \/ value_iteration_return
    \/ optimistic_policy_iteration_start
    \/ optimistic_policy_iteration_greedy
    \/ optimistic_policy_iteration_apply
    \/ optimistic_policy_iteration_error
    \/ optimistic_policy_iteration_return

Spec == Init /\ [][Next]_vars

(***************************************************************************)
(* The claims.                                                             *)
(***************************************************************************)
\* an externally supplied maximum-iteration cap
IterCap == 4

\* the greatest B(v)[i, j, k] over k is at k0, and at no index below k0
FirstMaximiser(b, d, k0) ==
    /\ \A k \in YIdx(mdl) : b.num[<<d[1], d[2], k>>] <= b.num[<<d[1], d[2], k0>>]
    /\ \A k \in YIdx(mdl) : k < k0 => b.num[<<d[1], d[2], k>>] < b.num[<<d[1], d[2], k0>>]

\* u[i, j] = reward(i, j, s[i, j]) + beta sum_jp w[s[i, j], jp] Q[j, jp] at every (i, j)
PolicyBackupOf(u, w, s) ==
    \A d \in Idx(mdl) :
        u.num[d] * w.den * mdl.beta_den * mdl.q_den
          = u.den * ( Reward(mdl, d[1], d[2], s[d]) * w.den * mdl.beta_den * mdl.q_den
                      + mdl.beta_num
                        * SumTo([jp \in ZIdx(mdl) |-> w.num[<<s[d], jp>>] * mdl.Qn[d[2]][jp]],
                                mdl.z_size) )

\* T_sigma_2 applied n times to u with the policy s
RECURSIVE Iterate_T_sigma_2(_, _, _)
Iterate_T_sigma_2(u, s, n) ==
    IF n = 0 THEN u ELSE T_sigma_2(mdl, Iterate_T_sigma_2(u, s, n - 1), s)

\* p is q or an initial part of q
IsPrefix(p, q) == Len(p) <= Len(q) /\ \A k \in 1..Len(p) : p[k] = q[k]

\* the change of value_iteration's k-th step in the sup norm
VfiChange(k) == MaxAbsDiff(trace.vfi[k], IF k = 1 THEN Zeros(mdl) ELSE trace.vfi[k - 1])

\* s is greedy for its own value, by the direct solve
HowardStable(s) == s = get_greedy(mdl, get_value(mdl, s))

\* C1: policy_iteration returns the policy it evaluated last, unchanged by the greedy
\* step: the returned sigma is get_greedy of the value the evaluator computed for it.
C1_ReturnsGreedyForOwnValue ==
    pc \notin {"start", "hpi"} =>
        /\ out.hpi = sigma_eval
        /\ v_sigma \in get_value_2(mdl, out.hpi)
        /\ out.hpi = get_greedy(mdl, v_sigma)

C1_Witness ==
    /\ pc = "hpi_done"
    /\ i >= 3
    /\ \E d \in Idx(mdl) : out.hpi[d] # 0

\* C2: on an input where the greedy policies cycle, policy_iteration has stopped once
\* it has made the cap's number of iterations.
C2_StopsAtCap ==
    (pc = "hpi" /\ sigma \in DOMAIN solved /\ i >= IterCap) => ~HPI_continue(error)

\* C3: every array policy_iteration takes from get_value_2 as the value of a policy
\* meets the solve's residual test; an unconverged iterate never reaches it.
C3_NoUnconvergedValue ==
    (pc \in {"hpi", "hpi_done"} /\ i > 0) =>
        A(mdl, v_sigma, sigma_eval) = [num |-> r_sigma(mdl, sigma_eval), den |-> 1]

\* C4, as stated: with m = 1, optimistic_policy_iteration goes through the value
\* functions of value_iteration, stops after as many steps and returns the same policy.
C4_SameStepsSamePolicy ==
    (pc = "opi_done" /\ m = 1) => (trace.opi = trace.vfi /\ out.opi = out.vfi)

\* C4, amended: with m = 1 the value functions of optimistic_policy_iteration are the
\* first ones of value_iteration; it stops at the first step whose change is <= tol,
\* value_iteration at the first whose change is < tol; unless a change equals tol they
\* stop after as many steps and return the same policy.
C4_PrefixOfValueIteration ==
    (m = 1 /\ pc \in {"opi", "opi_for", "opi_done"}) =>
        /\ IsPrefix(trace.opi, trace.vfi)
        /\ \A k \in 1..Len(trace.opi) : k < Len(trace.opi) => RatGT(VfiChange(k), tol)
        /\ pc = "opi_done" =>
             /\ ~RatGT(VfiChange(Len(trace.opi)), tol)
             /\ VfiChange(Len(trace.opi)) # tol =>
                  (trace.opi = trace.vfi /\ out.opi = out.vfi)
             /\ VfiChange(Len(trace.opi)) = tol => Len(trace.vfi) > Len(trace.opi)

C4_Witness ==
    /\ pc = "opi_done"
    /\ m = 1
    /\ Len(trace.opi) >= 3
    /\ trace.opi = trace.vfi
    /\ out.opi = out.vfi

\* C5: get_greedy(v)[i, j] is the smallest index at which B(v)[i, j, .] is greatest.
C5_FirstOccurrence ==
    call = "get_greedy" =>
        \A d \in Idx(mdl) : FirstMaximiser(B(mdl, arg.v), d, ret[1][d])

\* a call on a value function with an exact tie for the maximum
C5_Witness ==
    /\ call = "get_greedy"
    /\ mdl.y_size = 3
    /\ \E d \in Idx(mdl) :
         LET b == B(mdl, arg.v)
         IN  /\ ret[1][d] = 0
             /\ b.num[<<d[1], d[2], 2>>] = b.num[<<d[1], d[2], 0>>]
             /\ b.num[<<d[1], d[2], 1>>] < b.num[<<d[1], d[2], 0>>]

\* C6: the dense and the matrix-free policy operator return the same array, which is
\* reward(i, j, sigma[i, j]) + beta sum_jp v[sigma[i, j], jp] Q[j, jp] at every (i, j).
C6_PolicyOperatorsAgree ==
    call = "T_sigma_2" =>
        /\ ret[1] = ret[2]
        /\ PolicyBackupOf(ret[1], arg.v, arg.sigma)
        /\ PolicyBackupOf(ret[2], arg.v, arg.sigma)

C6_Witness ==
    /\ call = "T_sigma_2"
    /\ mdl.y_size = 3
    /\ mdl.q_den = 2
    /\ \E d, e \in Idx(mdl) : arg.sigma[d] # arg.sigma[e] /\ arg.v.num[d] # arg.v.num[e]
    /\ ret[1] # [num |-> r_sigma(mdl, arg.sigma), den |-> 1]

\* C8: max |T(v1) - T(v2)| <= discount * max |v1 - v2|.
C8_Contraction ==
    call = "T_again" =>
        LET dT == MaxAbsDiff(ret[1], ret[2])
            dv == MaxAbsDiff(arg.v, arg.w)
        IN  dT.num * mdl.beta_den * dv.den <= mdl.beta_num * dv.num * dT.den

\* two value functions whose images are at exactly discount times their distance
C8_Witness ==
    /\ call = "T_again"
    /\ arg.v # arg.w
    /\ LET dT == MaxAbsDiff(ret[1], ret[2])
           dv == MaxAbsDiff(arg.v, arg.w)
       IN  dT.num * mdl.beta_den * dv.den = mdl.beta_num * dv.num * dT.den

\* C9: the value a policy evaluator returns, get_value or get_value_2, solves
\* v = r_sigma + discount * P_sigma v.
C9_EvaluatorsSolvePolicyEquation ==
    call \in {"get_value", "get_value_2"} => PolicyBackupOf(ret[1], ret[1], arg.sigma)

\* the part of C9 that is about the direct solve
C9_DirectSolveSolvesPolicyEquation ==
    call = "get_value" => PolicyBackupOf(ret[1], ret[1], arg.sigma)

\* C10: an iteration of optimistic_policy_iteration takes sigma = get_greedy of the
\* value it starts from, applies T_sigma_2 m times for that sigma, then sets error to
\* the greatest change; the loop runs at least once and ends exactly when
\* error <= tol, and get_greedy of the last v is returned.
C10_OptimisticIteration ==
    LET start == IF Len(trace.opi) = 0 THEN Zeros(mdl) ELSE trace.opi[Len(trace.opi)]
        before == IF Len(trace.opi) = 1 THEN Zeros(mdl) ELSE trace.opi[Len(trace.opi) - 1]
    IN  /\ pc = "opi_for" =>
             /\ RatGT(error, tol)
             /\ sigma = get_greedy(mdl, start)
             /\ cnt <= m
             /\ v = Iterate_T_sigma_2(start, sigma, cnt)
        /\ (pc \in {"opi", "opi_done"} /\ i > 0) =>
             /\ Len(trace.opi) = i
             /\ v = Iterate_T_sigma_2(before, get_greedy(mdl, before), m)
             /\ error = MaxAbsDiff(v, before)
        /\ pc = "opi_done" =>
             /\ i >= 1
             /\ ~RatGT(error, tol)
             /\ out.opi = get_greedy(mdl, v)

C10_Witness ==
    /\ pc = "opi_done"
    /\ m = 2
    /\ i >= 2
    /\ \E d \in Idx(mdl) : out.opi[d] # 0

=============================================================================
